---- MODULE Spec2Model ----
(***************************************************************************)
(* Shipment routes of the Logistics Pro backend (src/server.js).           *)
(*                                                                         *)
(* The store is the two PostgreSQL tables shipments and status_history.    *)
(* Each request runs in a slot of Proc; every `await pool.query(...)` of a *)
(* handler is one atomic step of the store, and the synchronous code       *)
(* between two awaits belongs to the step that precedes it.  Requests in   *)
(* different slots interleave at the awaits.  A slot is free again once    *)
(* its request is answered; `last` is the answer sent most recently and    *)
(* what its handler logged.                                                *)
(*                                                                         *)
(* One clock `now` stands for Date.now() and CURRENT_TIMESTAMP; it only    *)
(* moves forward and several statements may run at the same clock value.   *)
(* Rows with equal created_at are returned in insertion order.             *)
(***************************************************************************)
EXTENDS Integers, Sequences, FiniteSets, TLC

VARIABLES now, shipments, status_history, shipSeq, histSeq,
          pc, req, loc, last, started

vars == <<now, shipments, status_history, shipSeq, histSeq,
          pc, req, loc, last, started>>

store == <<shipments, status_history, shipSeq, histSeq>>

(* ------------------------------ bounds --------------------------------- *)

NProc == 2
MaxRequests == 3
FirstMs == 35
MaxTicks == 1
\* requests received in the runs checked for liveness
MaxFairRequests == 2

Proc == 1..NProc

(* ------------------------------ values --------------------------------- *)

NULL == "NULL"
NoId == 0
NullNum == -999

Users ==
  { [userId |-> 7, phone |-> "0107", type |-> "company"],
    [userId |-> 4, phone |-> "0104", type |-> "driver"],
    [userId |-> 5, phone |-> "0105", type |-> "client"] }

NoUser == [userId |-> NoId, phone |-> NULL, type |-> NULL]

NoToken == "none"
BadToken == "garbage"
TokenOf(u) == "jwt-" \o u.phone
Tokens == {NoToken, BadToken} \cup {TokenOf(u) : u \in Users}

ValidToken(token) == \E u \in Users : TokenOf(u) = token
Decode(token) == CHOOSE u \in Users : TokenOf(u) = token

\* authenticate: 0 when next() is called, otherwise the status answered.
authenticate(token) ==
  IF token = NoToken THEN 401
  ELSE IF ~ValidToken(token) THEN 403
  ELSE 0

\* A request body may carry fields the handler does not read: every body
\* sent here names user 99 as owner (company_id) or actor (updated_by).
GoodDraft ==
  [customer_name |-> "Alice", customer_phone |-> "0100", customer_email |-> NULL,
   origin |-> "Cairo", destination |-> "Giza", service_type |-> "express",
   weight |-> 250, cost |-> 5000, notes |-> NULL, company_id |-> 99]

Drafts ==
  { GoodDraft,
    [GoodDraft EXCEPT !.origin = NULL],
    [GoodDraft EXCEPT !.weight = 0, !.cost = -100] }

NoDraft == [GoodDraft EXCEPT !.customer_name = NULL, !.customer_phone = NULL,
                             !.origin = NULL, !.destination = NULL,
                             !.service_type = NULL, !.weight = NullNum,
                             !.cost = NullNum]

UpdateBodies ==
  { [status |-> "in_transit", location |-> "Giza Depot", notes |-> "left at door",
     updated_by |-> 99],
    [status |-> "delivered",  location |-> NULL, notes |-> NULL, updated_by |-> 99],
    [status |-> "cancelled",  location |-> NULL, notes |-> NULL, updated_by |-> 99],
    [status |-> NULL, location |-> "Giza Depot", notes |-> NULL, updated_by |-> 99] }

NoBody == [status |-> NULL, location |-> NULL, notes |-> NULL, updated_by |-> NoId]

ShipmentIds == 1..2

(* ------------------------- tracking numbers ---------------------------- *)

Digits36 ==
  << "0","1","2","3","4","5","6","7","8","9","a","b","c","d","e","f","g","h",
     "i","j","k","l","m","n","o","p","q","r","s","t","u","v","w","x","y","z" >>

Upper36 ==
  << "0","1","2","3","4","5","6","7","8","9","A","B","C","D","E","F","G","H",
     "I","J","K","L","M","N","O","P","Q","R","S","T","U","V","W","X","Y","Z" >>

RECURSIVE toString36(_)
toString36(n) ==
  IF n < 36 THEN << Digits36[n + 1] >>
  ELSE Append(toString36(n \div 36), Digits36[(n % 36) + 1])

UpperChar(c) ==
  LET i == CHOOSE k \in 1..36 : Digits36[k] = c IN Upper36[i]

toUpperCase(cs) == [i \in 1..Len(cs) |-> UpperChar(cs[i])]

RECURSIVE Join(_)
Join(cs) == IF cs = << >> THEN "" ELSE cs[1] \o Join(Tail(cs))

GenTrackingNumber(ms) == "SH" \o Join(toUpperCase(toString36(ms)))

TrackingInputs ==
  { GenTrackingNumber(FirstMs), GenTrackingNumber(FirstMs + 1), "NONEXISTENT" }

(* ------------------------------ tables --------------------------------- *)

NoRow == [id |-> NoId]

Range(s) == { s[i] : i \in 1..Len(s) }

\* the WHERE clause left out: every row is returned
SelectShipmentById_NoWhere(id) ==
  SelectSeq(shipments, LAMBDA r : TRUE)

SelectShipmentById(id) ==
  SelectSeq(shipments, LAMBDA r : r.id = id)

\* every row is returned whatever the tracking number asked for
SelectShipmentByTracking_NoWhere(tn) ==
  SelectSeq(shipments, LAMBDA r : TRUE)

SelectShipmentByTracking(tn) ==
  SelectSeq(shipments, LAMBDA r : r.tracking_number = tn)

\* ORDER BY created_at ASC
RECURSIVE OrderAsc(_)
InsertAsc(sorted, e) ==
  LET k == Cardinality({ i \in 1..Len(sorted) : sorted[i].created_at <= e.created_at })
  IN  SubSeq(sorted, 1, k) \o << e >> \o SubSeq(sorted, k + 1, Len(sorted))
OrderAsc(rows) ==
  IF rows = << >> THEN << >>
  ELSE InsertAsc(OrderAsc(SubSeq(rows, 1, Len(rows) - 1)), rows[Len(rows)])

\* ORDER BY created_at DESC
RECURSIVE OrderDesc(_)
InsertDesc(sorted, e) ==
  LET k == Cardinality({ i \in 1..Len(sorted) : sorted[i].created_at >= e.created_at })
  IN  SubSeq(sorted, 1, k) \o << e >> \o SubSeq(sorted, k + 1, Len(sorted))
OrderDesc(rows) ==
  IF rows = << >> THEN << >>
  ELSE InsertDesc(OrderDesc(SubSeq(rows, 1, Len(rows) - 1)), rows[Len(rows)])

\* SELECT * FROM status_history WHERE shipment_id = $1 ORDER BY created_at ASC
SelectHistoryIn(history, shipmentId) ==
  OrderAsc(SelectSeq(history, LAMBDA e : e.shipment_id = shipmentId))

SelectHistory(shipmentId) == SelectHistoryIn(status_history, shipmentId)

\* NOT NULL columns of shipments that the INSERT of createShipment supplies
NotNullViolation(d) ==
  \/ d.customer_name = NULL
  \/ d.customer_phone = NULL
  \/ d.origin = NULL
  \/ d.destination = NULL
  \/ d.service_type = NULL
  \/ d.weight = NullNum
  \/ d.cost = NullNum

\* the column declared without UNIQUE
UniqueViolation_NoConstraint(tn) == FALSE

\* tracking_number VARCHAR(50) UNIQUE
UniqueViolation(tn) ==
  \E i \in 1..Len(shipments) : shipments[i].tracking_number = tn

\* driver_id added to the column list, bound to the creating principal
NewShipment_DriverIsCreator(id, tn, d, userId) ==
  [id |-> id, tracking_number |-> tn,
   customer_name |-> d.customer_name, customer_phone |-> d.customer_phone,
   customer_email |-> d.customer_email, origin |-> d.origin,
   destination |-> d.destination, service_type |-> d.service_type,
   weight |-> d.weight, cost |-> d.cost, status |-> "received",
   company_id |-> userId, driver_id |-> userId, current_location |-> NULL,
   notes |-> d.notes, created_at |-> now, updated_at |-> now]

\* the owner read from the request body
NewShipment_OwnerFromBody(id, tn, d, userId) ==
  [id |-> id, tracking_number |-> tn,
   customer_name |-> d.customer_name, customer_phone |-> d.customer_phone,
   customer_email |-> d.customer_email, origin |-> d.origin,
   destination |-> d.destination, service_type |-> d.service_type,
   weight |-> d.weight, cost |-> d.cost, status |-> "received",
   company_id |-> d.company_id, driver_id |-> NoId, current_location |-> NULL,
   notes |-> d.notes, created_at |-> now, updated_at |-> now]

NewShipment(id, tn, d, userId) ==
  [id |-> id, tracking_number |-> tn,
   customer_name |-> d.customer_name, customer_phone |-> d.customer_phone,
   customer_email |-> d.customer_email, origin |-> d.origin,
   destination |-> d.destination, service_type |-> d.service_type,
   weight |-> d.weight, cost |-> d.cost, status |-> "received",
   company_id |-> userId, driver_id |-> NoId, current_location |-> NULL,
   notes |-> d.notes, created_at |-> now, updated_at |-> now]

\* notes left out of the column list
NewEvent_NoNotes(id, shipmentId, status, location, notes, userId) ==
  [id |-> id, shipment_id |-> shipmentId, status |-> status,
   location |-> location, notes |-> NULL, updated_by |-> userId,
   created_at |-> now]

NewEvent(id, shipmentId, status, location, notes, userId) ==
  [id |-> id, shipment_id |-> shipmentId, status |-> status,
   location |-> location, notes |-> notes, updated_by |-> userId,
   created_at |-> now]

\* one status row kept per shipment after the initial one (an upsert)
InsertEvent_Upsert(history, e) ==
  Append(SelectSeq(history, LAMBDA x : x.shipment_id # e.shipment_id
                                        \/ x.status = "received"), e)

\* the shipment's rows overwritten with the new values (an UPDATE where
\* the code has an INSERT)
InsertEvent_Overwrite(history, e) ==
  IF \E k \in 1..Len(history) : history[k].shipment_id = e.shipment_id
  THEN [k \in 1..Len(history) |->
          IF history[k].shipment_id = e.shipment_id
          THEN [e EXCEPT !.id = history[k].id]
          ELSE history[k]]
  ELSE Append(history, e)

\* INSERT INTO status_history ...: the rows after the statement
InsertEvent(history, e) == Append(history, e)

(* ----------------------------- requests -------------------------------- *)

NoReq == [kind |-> "none", token |-> NoToken, id |-> NoId,
          trackingNumber |-> NULL, draft |-> NoDraft, body |-> NoBody]

NoLoc == [user |-> NoUser, trackingNumber |-> NULL, row |-> NoRow]

NoResp == [code |-> 0, error |-> NULL, message |-> NULL,
           shipment |-> NoRow, shipments |-> << >>]

Respond(code) == [NoResp EXCEPT !.code = code]

Error(code, msg) == [NoResp EXCEPT !.code = code, !.error = msg]

\* The answer to a request of `kind`; err, at and trackingNumber are what
\* console.error(err) printed ("none" when the handler did not catch).
Answered(kind, token, response, err, at, tn) ==
  [kind |-> kind, token |-> token, resp |-> response,
   err |-> err, at |-> at, trackingNumber |-> tn]

NoAnswer == Answered("none", NoToken, NoResp, "none", "none", NULL)

\* The server takes a new request into slot p, the first unused one.
Free(p) ==
  /\ pc[p] = "idle"
  /\ started < MaxRequests
  /\ \A q \in Proc : q < p => pc[q] # "idle"

\* A request answered by the step that received it.
AnswerAtOnce(p, kind, token, response, err) ==
  /\ last' = Answered(kind, token, response, err,
                      IF err = "none" THEN "none" ELSE kind, NULL)
  /\ started' = started + 1
  /\ UNCHANGED <<pc, req, loc>>

\* res.json / res.status(..).json of a request in progress: the response is
\* sent, the request and its locals are gone.
Answer(p, response, err) ==
  /\ last' = Answered(req[p].kind, req[p].token, response, err,
                      IF err = "none" THEN "none" ELSE pc[p],
                      loc[p].trackingNumber)
  /\ req' = [req EXCEPT ![p] = NoReq]
  /\ loc' = [loc EXCEPT ![p] = NoLoc]
  /\ pc' = [pc EXCEPT ![p] = "idle"]

\* a catch block that logs and sends nothing: the request is left open
Fail_NoResponse(p, err) ==
  /\ pc' = [pc EXCEPT ![p] = "hung"]
  /\ UNCHANGED <<req, loc, last>>

\* catch (err) of a handler: the awaited pool.query rejected.
Fail(p, err) == Answer(p, Error(500, "Server error"), err)

\* The handler in slot p goes on to its next await.
Begin(p, request, locals, next) ==
  /\ req' = [req EXCEPT ![p] = request]
  /\ loc' = [loc EXCEPT ![p] = locals]
  /\ pc' = [pc EXCEPT ![p] = next]
  /\ started' = started + 1
  /\ UNCHANGED last

Init ==
  /\ now = FirstMs
  /\ shipments = << >>
  /\ status_history = << >>
  /\ shipSeq = 1
  /\ histSeq = 1
  /\ pc = [p \in Proc |-> "idle"]
  /\ req = [p \in Proc |-> NoReq]
  /\ loc = [p \in Proc |-> NoLoc]
  /\ last = NoAnswer
  /\ started = 0

Tick ==
  /\ now < FirstMs + MaxTicks
  /\ now' = now + 1
  /\ UNCHANGED <<store, pc, req, loc, last, started>>

\* GET /api/shipments registered without `authenticate`: the rows are sent
\* to a caller without a usable credential
Unauthorized_ListUnprotected(p) ==
  /\ Free(p)
  /\ \E token \in {NoToken, BadToken} :
       AnswerAtOnce(p, "list", token,
                    [Respond(200) EXCEPT !.shipments = OrderDesc(shipments)],
                    "none")
  /\ UNCHANGED <<now, store>>

\* A request to a route behind `authenticate` without a usable credential.
Unauthorized(p) ==
  /\ Free(p)
  /\ \E kind \in {"create", "list", "get", "update"}, token \in {NoToken, BadToken} :
       AnswerAtOnce(p, kind, token,
                    IF authenticate(token) = 401
                    THEN Error(401, "Access denied")
                    ELSE Error(403, "Invalid token"),
                    "none")
  /\ UNCHANGED <<now, store>>

\* pool.query rejects for a reason of the store (connection lost, timeout).
StoreFailure(p) ==
  /\ pc[p] \in {"c_insert", "c_hist", "g_hist", "t_hist", "u_update", "u_hist"}
  /\ Fail(p, "store_failure")
  /\ UNCHANGED <<now, store, started>>

\* The same for the first query of a handler that starts with a SELECT.
FirstQueryFailure(p) ==
  /\ Free(p)
  /\ \E kind \in {"list", "get", "track", "update"}, token \in Tokens :
       /\ IF kind = "track" THEN token = NoToken ELSE authenticate(token) = 0
       /\ AnswerAtOnce(p, kind, token, Error(500, "Server error"), "store_failure")
  /\ UNCHANGED <<now, store>>

(* POST /api/shipments *)
CreateBegin(p) ==
  /\ Free(p)
  /\ \E token \in Tokens, d \in Drafts :
       /\ authenticate(token) = 0
       /\ Begin(p, [NoReq EXCEPT !.kind = "create", !.token = token, !.draft = d],
                [NoLoc EXCEPT !.user = Decode(token),
                              !.trackingNumber = GenTrackingNumber(now)],
                "c_insert")
  /\ UNCHANGED <<now, store>>

CreateInsert(p) ==
  /\ pc[p] = "c_insert"
  /\ shipSeq' = shipSeq + 1
  /\ IF NotNullViolation(req[p].draft)
     THEN /\ Fail(p, "not_null_violation")
          /\ UNCHANGED shipments
     ELSE IF UniqueViolation(loc[p].trackingNumber)
     THEN /\ Fail(p, "unique_violation")
          /\ UNCHANGED shipments
     ELSE LET row == NewShipment(shipSeq, loc[p].trackingNumber, req[p].draft,
                                 loc[p].user.userId)
          IN  /\ shipments' = Append(shipments, row)
              /\ loc' = [loc EXCEPT ![p].row = row]
              /\ pc' = [pc EXCEPT ![p] = "c_hist"]
              /\ UNCHANGED <<req, last>>
  /\ UNCHANGED <<now, status_history, histSeq, started>>

CreateHistory(p) ==
  /\ pc[p] = "c_hist"
  /\ status_history' = InsertEvent(status_history,
        NewEvent(histSeq, loc[p].row.id, "received", req[p].draft.origin,
                 "Shipment received", loc[p].user.userId))
  /\ histSeq' = histSeq + 1
  /\ Answer(p, [Respond(201) EXCEPT !.shipment = loc[p].row], "none")
  /\ UNCHANGED <<now, shipments, shipSeq, started>>

(* GET /api/shipments *)
\* the driver branch filtering on the wrong column
VisibilityFilter_DriverByCompany(user, r) ==
  IF user.type = "company" THEN r.company_id = user.userId
  ELSE IF user.type = "driver" THEN r.company_id = user.userId
  ELSE TRUE

VisibilityFilter(user, r) ==
  IF user.type = "company" THEN r.company_id = user.userId
  ELSE IF user.type = "driver" THEN r.driver_id = user.userId
  ELSE TRUE

SelectShipmentsFor(user) ==
  OrderDesc(SelectSeq(shipments, LAMBDA r : VisibilityFilter(user, r)))

ListShipments(p) ==
  /\ Free(p)
  /\ \E token \in Tokens :
       /\ authenticate(token) = 0
       /\ AnswerAtOnce(p, "list", token,
            [Respond(200) EXCEPT !.shipments = SelectShipmentsFor(Decode(token))],
            "none")
  /\ UNCHANGED <<now, store>>

(* GET /api/shipments/:id *)
WithHistory(row, history) == [status_history |-> history] @@ row

GetSelect(p) ==
  /\ Free(p)
  /\ \E token \in Tokens, id \in ShipmentIds :
       /\ authenticate(token) = 0
       /\ LET result == SelectShipmentById(id) IN
          IF Len(result) = 0
          THEN AnswerAtOnce(p, "get", token, Error(404, "Shipment not found"),
                            "none")
          ELSE Begin(p, [NoReq EXCEPT !.kind = "get", !.token = token, !.id = id],
                     [NoLoc EXCEPT !.row = result[1]], "g_hist")
  /\ UNCHANGED <<now, store>>

GetHistory(p) ==
  /\ pc[p] = "g_hist"
  /\ Answer(p, [Respond(200) EXCEPT
                  !.shipment = WithHistory(loc[p].row, SelectHistory(req[p].id))],
            "none")
  /\ UNCHANGED <<now, store, started>>

(* GET /api/shipments/track/:trackingNumber *)
TrackSelect(p) ==
  /\ Free(p)
  /\ \E tn \in TrackingInputs :
       LET result == SelectShipmentByTracking(tn) IN
       IF Len(result) = 0
       THEN AnswerAtOnce(p, "track", NoToken, Error(404, "Shipment not found"),
                         "none")
       ELSE Begin(p, [NoReq EXCEPT !.kind = "track", !.trackingNumber = tn],
                  [NoLoc EXCEPT !.row = result[1]], "t_hist")
  /\ UNCHANGED <<now, store>>

TrackHistory(p) ==
  /\ pc[p] = "t_hist"
  /\ Answer(p, [Respond(200) EXCEPT
                  !.shipment = WithHistory(loc[p].row, SelectHistory(loc[p].row.id))],
            "none")
  /\ UNCHANGED <<now, store, started>>

(* PUT /api/shipments/:id/status *)
UpdateSelect(p) ==
  /\ Free(p)
  /\ \E token \in Tokens, id \in ShipmentIds, body \in UpdateBodies :
       /\ authenticate(token) = 0
       /\ LET shipmentResult == SelectShipmentById(id) IN
          IF Len(shipmentResult) = 0
          THEN AnswerAtOnce(p, "update", token,
                            Error(404, "Shipment not found"), "none")
          ELSE Begin(p, [NoReq EXCEPT !.kind = "update", !.token = token, !.id = id,
                                   !.body = body],
                     [NoLoc EXCEPT !.user = Decode(token), !.row = shipmentResult[1]],
                     "u_update")
  /\ UNCHANGED <<now, store>>

\* a transition graph: a delivered or cancelled shipment is not written
UpdateShipmentRow_TerminalFrozen(r, id, status, location) ==
  IF r.id = id /\ r.status \notin {"delivered", "cancelled"}
  THEN [r EXCEPT !.status = status, !.current_location = location,
                 !.updated_at = now]
  ELSE r

\* the UPDATE without its WHERE clause: every row is written
UpdateShipmentRow_NoWhere(r, id, status, location) ==
  [r EXCEPT !.status = status, !.current_location = location,
            !.updated_at = now]

\* UPDATE shipments SET status = $1, current_location = $2,
\*   updated_at = CURRENT_TIMESTAMP WHERE id = $3
UpdateShipmentRow(r, id, status, location) ==
  IF r.id = id
  THEN [r EXCEPT !.status = status, !.current_location = location,
                 !.updated_at = now]
  ELSE r

UpdateRow(p) ==
  /\ pc[p] = "u_update"
  /\ shipments' = [i \in 1..Len(shipments) |->
        UpdateShipmentRow(shipments[i], req[p].id, req[p].body.status,
                          req[p].body.location)]
  /\ pc' = [pc EXCEPT ![p] = "u_hist"]
  /\ UNCHANGED <<now, status_history, shipSeq, histSeq, req, loc, last, started>>

UpdateHistory(p) ==
  /\ pc[p] = "u_hist"
  /\ histSeq' = histSeq + 1
  /\ IF req[p].body.status = NULL
     THEN /\ Fail(p, "not_null_violation")
          /\ UNCHANGED status_history
     ELSE /\ status_history' = InsertEvent(status_history,
                NewEvent(histSeq, req[p].id, req[p].body.status,
                         req[p].body.location, req[p].body.notes,
                         loc[p].user.userId))
          /\ Answer(p, [Respond(200) EXCEPT !.message = "Status updated successfully"],
                    "none")
  /\ UNCHANGED <<now, shipments, shipSeq, started>>

Next ==
  \/ Tick
  \/ \E p \in Proc : Unauthorized(p)
  \/ \E p \in Proc : StoreFailure(p)
  \/ \E p \in Proc : FirstQueryFailure(p)
  \/ \E p \in Proc : CreateBegin(p)
  \/ \E p \in Proc : CreateInsert(p)
  \/ \E p \in Proc : CreateHistory(p)
  \/ \E p \in Proc : ListShipments(p)
  \/ \E p \in Proc : GetSelect(p)
  \/ \E p \in Proc : GetHistory(p)
  \/ \E p \in Proc : TrackSelect(p)
  \/ \E p \in Proc : TrackHistory(p)
  \/ \E p \in Proc : UpdateSelect(p)
  \/ \E p \in Proc : UpdateRow(p)
  \/ \E p \in Proc : UpdateHistory(p)

Spec == Init /\ [][Next]_vars

\* The same handlers on a store whose queries fail only for what the
\* statements themselves violate (NOT NULL, UNIQUE).
NextNoStoreFailure ==
  \/ Tick
  \/ \E p \in Proc : Unauthorized(p)
  \/ \E p \in Proc : CreateBegin(p)
  \/ \E p \in Proc : CreateInsert(p)
  \/ \E p \in Proc : CreateHistory(p)
  \/ \E p \in Proc : ListShipments(p)
  \/ \E p \in Proc : GetSelect(p)
  \/ \E p \in Proc : GetHistory(p)
  \/ \E p \in Proc : TrackSelect(p)
  \/ \E p \in Proc : TrackHistory(p)
  \/ \E p \in Proc : UpdateSelect(p)
  \/ \E p \in Proc : UpdateRow(p)
  \/ \E p \in Proc : UpdateHistory(p)

SpecNoStoreFailure == Init /\ [][NextNoStoreFailure]_vars

\* The pool.query that the handler in slot p awaits returns or rejects.
Continue(p) ==
  \/ CreateInsert(p)
  \/ CreateHistory(p)
  \/ GetHistory(p)
  \/ TrackHistory(p)
  \/ UpdateRow(p)
  \/ UpdateHistory(p)
  \/ StoreFailure(p)

\* The steps of Next with at most MaxFairRequests requests received.
NextFair ==
  \/ Tick
  \/ \E p \in Proc : started < MaxFairRequests /\ Unauthorized(p)
  \/ \E p \in Proc : started < MaxFairRequests /\ FirstQueryFailure(p)
  \/ \E p \in Proc : started < MaxFairRequests /\ CreateBegin(p)
  \/ \E p \in Proc : started < MaxFairRequests /\ ListShipments(p)
  \/ \E p \in Proc : started < MaxFairRequests /\ GetSelect(p)
  \/ \E p \in Proc : started < MaxFairRequests /\ TrackSelect(p)
  \/ \E p \in Proc : started < MaxFairRequests /\ UpdateSelect(p)
  \/ \E p \in Proc : CreateInsert(p)
  \/ \E p \in Proc : CreateHistory(p)
  \/ \E p \in Proc : GetHistory(p)
  \/ \E p \in Proc : TrackHistory(p)
  \/ \E p \in Proc : UpdateRow(p)
  \/ \E p \in Proc : UpdateHistory(p)
  \/ \E p \in Proc : StoreFailure(p)

\* Runs in which every awaited store call eventually returns or fails.
SpecFair ==
  /\ Init
  /\ [][NextFair]_vars
  /\ \A p \in Proc : WF_vars(Continue(p))

(* ------------------------- handler results ------------------------------ *)

Quiescent == \A p \in Proc : pc[p] = "idle"

NoWriteInProgress ==
  \A p \in Proc : pc[p] \notin {"c_insert", "c_hist", "u_update", "u_hist"}

\* What GET /api/shipments/:id answers when both its queries see this store.
getShipment(id) ==
  LET result == SelectShipmentById(id) IN
  IF Len(result) = 0 THEN Error(404, "Shipment not found")
  ELSE [Respond(200) EXCEPT !.shipment = WithHistory(result[1], SelectHistory(id))]

\* What GET /api/shipments/track/:trackingNumber answers on this store.
trackShipment(tn) ==
  LET result == SelectShipmentByTracking(tn) IN
  IF Len(result) = 0 THEN Error(404, "Shipment not found")
  ELSE [Respond(200) EXCEPT
          !.shipment = WithHistory(result[1], SelectHistory(result[1].id))]

\* The step answers the update in slot p with success.
UpdateSucceeds(p) ==
  pc[p] = "u_hist" /\ pc'[p] = "idle" /\ last'.resp.code = 200

\* The step receives a request of `kind` and answers it without another await.
AnsweredAtOnce(kind) ==
  started' = started + 1 /\ pc' = pc /\ last'.kind = kind

\* The step receives a request into slot p and its handler goes on to `next`.
Proceeds(p, next) ==
  started' = started + 1 /\ pc[p] = "idle" /\ pc'[p] = next

\* The routes registered with the `authenticate` middleware.
Protected == {"create", "list", "get", "update"}

(* ------------------------------ claims ---------------------------------- *)

\* C1: in every reachable state no two shipments of the store have the same
\* tracking_number.
C1_UniqueTrackingNumbers ==
  \A i, j \in 1..Len(shipments) :
    i # j => shipments[i].tracking_number # shipments[j].tracking_number

\* Two shipments are stored and the insert of a third create has just been
\* rejected as a duplicate.
C1_Witness ==
  /\ Len(shipments) >= 2
  /\ last.kind = "create" /\ last.err = "unique_violation"

\* C2: two createShipment requests that run concurrently and generated their
\* tracking number from the same millisecond both succeed, with distinct
\* tracking numbers.  While p is still between its two writes, a create
\* that drew the same number and was not stopped by anything else has been
\* answered 201 with another tracking number.
C2_SameMillisecondBothSucceed ==
  \A p \in Proc :
    ( /\ req[p].kind = "create" /\ pc[p] = "c_hist"
      /\ last.kind = "create"
      /\ last.trackingNumber = loc[p].trackingNumber
      /\ last.err \in {"none", "unique_violation"} )
    => /\ last.resp.code = 201
       /\ last.resp.shipment.tracking_number # loc[p].row.tracking_number

\* C3: a createShipment whose insert is rejected for a duplicate tracking
\* number is answered, once its attempts are used up, with a Conflict (409)
\* and not with the generic server error.
C3_CollisionAnsweredConflict ==
  (last.kind = "create" /\ last.err = "unique_violation")
  => last.resp.code = 409

\* C4: in every reachable state every shipment of the store has a non-empty
\* status history whose first element (created_at ascending) is 'received'.
C4_HistoryStartsReceived ==
  \A i \in 1..Len(shipments) :
    LET h == SelectHistory(shipments[i].id) IN
    Len(h) > 0 /\ h[1].status = "received"

\* C5: a status update is all-or-nothing.  When an updateShipmentStatus
\* request fails at its history insert, the shipment row does not carry the
\* request's status and location unless a StatusEvent with them exists.
C5_UpdateAllOrNothing ==
  [][ \A p \in Proc :
        (pc[p] = "u_hist" /\ pc'[p] = "idle" /\ last'.resp.code # 200)
        => LET r == SelectSeq(shipments', LAMBDA x : x.id = req[p].id)[1] IN
           \/ ~(r.status = req[p].body.status
                /\ r.current_location = req[p].body.location)
           \/ \E k \in 1..Len(status_history') :
                /\ status_history'[k].shipment_id = req[p].id
                /\ status_history'[k].status = req[p].body.status
                /\ status_history'[k].location = req[p].body.location
    ]_vars

\* C6: in every state where no request is in progress, the last StatusEvent
\* of every shipment (created_at ascending) has the shipment's status and
\* its current_location.
C6_LastEventIsCurrent ==
  Quiescent =>
    \A i \in 1..Len(shipments) :
      LET h == SelectHistory(shipments[i].id) IN
      /\ Len(h) > 0
      /\ h[Len(h)].status = shipments[i].status
      /\ h[Len(h)].location = shipments[i].current_location

\* C7: the step that completes an updateShipmentStatus(id, status, location,
\* notes) with success makes the history of shipment id exactly one element
\* longer, the new last element carries the request's status, location and
\* notes, and the shipment's updated_at is not smaller than it was when the
\* request read the shipment.
C7_UpdateAppendsOneEvent ==
  [][ \A p \in Proc :
        UpdateSucceeds(p)
        => LET before == SelectHistoryIn(status_history, req[p].id)
               after == SelectHistoryIn(status_history', req[p].id)
               r == SelectSeq(shipments', LAMBDA x : x.id = req[p].id)[1]
           IN  /\ Len(after) = Len(before) + 1
               /\ SubSeq(after, 1, Len(before)) = before
               /\ after[Len(after)].status = req[p].body.status
               /\ after[Len(after)].location = req[p].body.location
               /\ after[Len(after)].notes = req[p].body.notes
               /\ r.updated_at >= loc[p].row.updated_at
    ]_vars

\* An update with notes has just been answered 200 and its event is the last
\* of a history of two, written at a later clock value than the creation.
C7_Witness ==
  /\ last.kind = "update" /\ last.resp.code = 200
  /\ \E i \in 1..Len(shipments) :
       LET h == SelectHistory(shipments[i].id) IN
       /\ Len(h) = 2
       /\ h[2].status = "in_transit" /\ h[2].notes = "left at door"
       /\ shipments[i].updated_at > shipments[i].created_at

\* C8: concurrent status updates on one shipment lose no history and the
\* last row write wins.  Every step keeps every StatusEvent already written,
\* a successful update adds the event of its own request, and a shipment's
\* status changes only by the row write of an update, to that request's
\* status.
C8_NoLostEventLastWriteWins ==
  [][ /\ Len(status_history') >= Len(status_history)
      /\ \A k \in 1..Len(status_history) : status_history'[k] = status_history[k]
      /\ \A p \in Proc :
           UpdateSucceeds(p)
           => LET e == status_history'[Len(status_history')] IN
              /\ Len(status_history') = Len(status_history) + 1
              /\ e.shipment_id = req[p].id
              /\ e.status = req[p].body.status
              /\ e.location = req[p].body.location
              /\ e.updated_by = loc[p].user.userId
      /\ \A i \in 1..Len(shipments) :
           shipments'[i].status # shipments[i].status
           => \E p \in Proc :
                /\ pc[p] = "u_update" /\ pc'[p] = "u_hist"
                /\ req[p].id = shipments[i].id
                /\ shipments'[i].status = req[p].body.status
    ]_vars

\* Two updates of one shipment have both been answered 200: the ledger
\* holds the initial event and one event of each, and the row has the status
\* of the request whose event came first, so the two requests overlapped.
C8_Witness ==
  /\ Quiescent
  /\ last.kind = "update" /\ last.resp.code = 200
  /\ \E i \in 1..Len(shipments) :
       LET h == SelectHistory(shipments[i].id) IN
       /\ Len(h) = 3
       /\ h[1].status = "received"
       /\ h[2].status # h[3].status
       /\ shipments[i].status = h[2].status

\* C9: listShipments answers a company principal exactly the shipments with
\* its id as company_id, a driver principal exactly those with its id as
\* driver_id, and any other principal every shipment of the store.
C9_ListIsRoleScoped ==
  \A u \in Users :
    LET rows == SelectShipmentsFor(u) IN
    /\ Len(rows) = Cardinality(Range(rows))
    /\ Range(rows) =
         IF u.type = "company"
         THEN { r \in Range(shipments) : r.company_id = u.userId }
         ELSE IF u.type = "driver"
         THEN { r \in Range(shipments) : r.driver_id = u.userId }
         ELSE Range(shipments)

\* A company principal has just been answered one shipment, its own, while
\* the store holds a shipment of another owner.
C9_Witness ==
  /\ last.kind = "list" /\ last.resp.code = 200
  /\ Decode(last.token).type = "company"
  /\ Len(last.resp.shipments) = 1
  /\ last.resp.shipments[1].company_id = Decode(last.token).userId
  /\ last.resp.shipments = SelectShipmentsFor(Decode(last.token))
  /\ \E i \in 1..Len(shipments) :
       shipments[i].company_id # Decode(last.token).userId

\* C10: with no write in progress, tracking a shipment by its tracking
\* number and getting it by its id answer the same record and the same
\* ordered status history.
C10_TrackEqualsGet ==
  NoWriteInProgress =>
    \A i \in 1..Len(shipments) :
      LET t == trackShipment(shipments[i].tracking_number)
          g == getShipment(shipments[i].id)
      IN  /\ t.code = 200
          /\ g.code = 200
          /\ t.shipment = g.shipment
          /\ t.shipment.id = shipments[i].id

\* A track of the second of two shipments has just been answered with its
\* record and its history, and a get by its id answers the same.
C10_Witness ==
  /\ NoWriteInProgress
  /\ Len(shipments) = 2
  /\ last.kind = "track" /\ last.resp.code = 200
  /\ last.resp.shipment.id = shipments[2].id
  /\ Len(last.resp.shipment.status_history) = 1
  /\ last.resp = trackShipment(shipments[2].tracking_number)
  /\ last.resp = getShipment(shipments[2].id)

\* C11: a get, track or update request that names an id or tracking number
\* not in the store is answered 404 'Shipment not found' by the step that
\* receives it and that step leaves both tables unchanged; a handler goes on
\* past its SELECT only for a stored shipment, and a track request is never
\* answered 401 or 403.
C11_NotFoundNoEffect ==
  [][ /\ \A p \in Proc :
           /\ (Proceeds(p, "g_hist") \/ Proceeds(p, "u_update"))
              => \E i \in 1..Len(shipments) : shipments[i].id = req'[p].id
           /\ Proceeds(p, "t_hist")
              => \E i \in 1..Len(shipments) :
                   shipments[i].tracking_number = req'[p].trackingNumber
      /\ \A kind \in {"get", "track", "update"} :
           ( /\ AnsweredAtOnce(kind)
             /\ last'.err = "none"
             /\ last'.resp.code \notin {401, 403} )
           => /\ last'.resp = Error(404, "Shipment not found")
              /\ UNCHANGED store
      /\ last'.kind = "track" => last'.resp.code \notin {401, 403}
    ]_vars

\* A track request has just been answered 404 while the store holds a
\* shipment and its first StatusEvent.
C11_Witness ==
  /\ last.kind = "track" /\ last.resp = Error(404, "Shipment not found")
  /\ last.token = NoToken
  /\ Len(shipments) >= 1 /\ Len(status_history) >= 1

\* C12: createShipment with a draft that misses a required field, or whose
\* weight is not positive, or whose cost is negative, is answered with a
\* validation error (a 4xx response) and writes no shipment: no stored
\* shipment has a weight that is not positive or a negative cost, and a
\* create whose draft misses a required field is answered 4xx.
C12_InvalidDraftRejected ==
  /\ \A i \in 1..Len(shipments) :
       shipments[i].weight > 0 /\ shipments[i].cost >= 0
  /\ (last.kind = "create" /\ last.err = "not_null_violation")
     => last.resp.code \in 400..499

\* C13: every step keeps every stored shipment with its id, tracking_number,
\* company_id and created_at; a shipment changes only by the row write of an
\* update that names its id, and then only in status, current_location and
\* updated_at.
C13_UpdateFrame ==
  [][ /\ Len(shipments') >= Len(shipments)
      /\ \A i \in 1..Len(shipments) :
           /\ shipments'[i].id = shipments[i].id
           /\ shipments'[i].tracking_number = shipments[i].tracking_number
           /\ shipments'[i].company_id = shipments[i].company_id
           /\ shipments'[i].created_at = shipments[i].created_at
           /\ shipments'[i] # shipments[i]
              => /\ \E p \in Proc :
                      /\ pc[p] = "u_update" /\ pc'[p] = "u_hist"
                      /\ req[p].id = shipments[i].id
                 /\ shipments'[i] =
                      [shipments[i] EXCEPT
                         !.status = shipments'[i].status,
                         !.current_location = shipments'[i].current_location,
                         !.updated_at = shipments'[i].updated_at]
    ]_vars

\* Of two stored shipments one has been updated at a later clock value and
\* the other is as it was created; the update has just been answered 200.
C13_Witness ==
  /\ last.kind = "update" /\ last.resp.code = 200
  /\ \E i, j \in 1..Len(shipments) :
       /\ i # j
       /\ shipments[i].status = "in_transit"
       /\ shipments[i].current_location = "Giza Depot"
       /\ shipments[i].updated_at > shipments[i].created_at
       /\ shipments[j].status = "received"
       /\ shipments[j].current_location = NULL
       /\ shipments[j].updated_at = shipments[j].created_at

\* C14: a create, list, get or update request is answered 401 'Access
\* denied' exactly when it carries no token and 403 'Invalid token' exactly
\* when its token does not verify; these answers carry no shipment data and
\* the step that gives them leaves both tables unchanged; a handler of these
\* routes is only ever in progress for a verified token.  A track request
\* carries no credential and is never answered 401 or 403.
C14_NoCredentialNoAccess ==
  [][ /\ last'.kind \in Protected
         => /\ authenticate(last'.token) = 401
               <=> last'.resp = Error(401, "Access denied")
            /\ authenticate(last'.token) = 403
               <=> last'.resp = Error(403, "Invalid token")
      /\ \A kind \in Protected :
           (AnsweredAtOnce(kind) /\ authenticate(last'.token) # 0)
           => UNCHANGED store
      /\ \A p \in Proc :
           req'[p].kind \in Protected
           => /\ authenticate(req'[p].token) = 0
              /\ req'[p].kind \in {"create", "update"}
                 => loc'[p].user = Decode(req'[p].token)
      /\ last'.kind = "track"
         => last'.token = NoToken /\ last'.resp.code \in {200, 404, 500}
    ]_vars

\* An update request with a token that does not verify has just been
\* answered 403 while the store holds a shipment and its first StatusEvent.
C14_Witness ==
  /\ last.kind = "update" /\ last.token = BadToken
  /\ last.resp = Error(403, "Invalid token")
  /\ last.resp.shipment = NoRow /\ last.resp.shipments = << >>
  /\ Len(shipments) >= 1 /\ Len(status_history) >= 1

\* C15: the ledger is append-only.  Every StatusEvent in the table before a
\* step is in the table after it with all its fields, and is still in the
\* history the handlers read for its shipment, so the set of StatusEvents of
\* a shipment only grows.
C15_LedgerAppendOnly ==
  [][ \A e \in Range(status_history) :
        /\ e \in Range(status_history')
        /\ e \in Range(SelectHistoryIn(status_history', e.shipment_id))
    ]_vars

\* The ledger holds the first events of two shipments and, after them, the
\* event of an update of the first one that has just been answered 200.
C15_Witness ==
  /\ last.kind = "update" /\ last.resp.code = 200
  /\ Len(status_history) = 3
  /\ status_history[1].status = "received"
  /\ status_history[2].status = "received"
  /\ status_history[2].shipment_id # status_history[1].shipment_id
  /\ status_history[3].shipment_id = status_history[1].shipment_id
  /\ status_history[3].status = "cancelled"

\* C16: no transition graph.  Whatever the current status of the shipment,
\* an update in progress that carries a status writes that status to the
\* shipment row at its row write and, at its history insert, is answered 200
\* with its StatusEvent appended to the ledger, unless the statement fails
\* for a reason of the store.
C16_AnyTransitionRecorded ==
  [][ \A p \in Proc :
        ( /\ req[p].kind = "update" /\ req[p].body.status # NULL
          /\ pc'[p] # pc[p]
          /\ ~(pc'[p] = "idle" /\ last'.err = "store_failure") )
        => /\ pc[p] = "u_update"
              => /\ pc'[p] = "u_hist"
                 /\ \A i \in 1..Len(shipments) :
                      shipments[i].id = req[p].id
                      => shipments'[i].status = req[p].body.status
           /\ pc[p] = "u_hist"
              => /\ pc'[p] = "idle"
                 /\ last'.resp.code = 200
                 /\ Len(status_history') = Len(status_history) + 1
                 /\ status_history'[Len(status_history')].shipment_id = req[p].id
                 /\ status_history'[Len(status_history')].status = req[p].body.status
    ]_vars

\* A shipment that was cancelled has then been set to delivered: both
\* updates were answered 200, the ledger has both events after the first
\* one and the row has the status of the later.
C16_Witness ==
  /\ Quiescent
  /\ last.kind = "update" /\ last.resp.code = 200
  /\ \E i \in 1..Len(shipments) :
       LET h == SelectHistory(shipments[i].id) IN
       /\ Len(h) = 3
       /\ h[2].status = "cancelled"
       /\ h[3].status = "delivered"
       /\ h[3].created_at > h[2].created_at
       /\ shipments[i].status = "delivered"

\* C17: every request gets exactly one response.  A handler in progress is
\* eventually answered when each of its store calls returns or fails; the
\* step that ends a handler sends the response to its request and clears
\* it, no other step of a handler sends anything, and a store failure is
\* answered 500 'Server error' with nothing written and the request gone
\* (no retry).
C17_ExactlyOneResponse ==
  /\ \A p \in Proc : (pc[p] # "idle") ~> (pc[p] = "idle")
  /\ [][ /\ \A p \in Proc :
             /\ (pc[p] # "idle" /\ pc'[p] = "idle")
                => /\ last'.kind = req[p].kind
                   /\ last'.token = req[p].token
                   /\ last'.resp.code \in {200, 201, 500}
                   /\ req'[p] = NoReq
                   /\ \A q \in Proc \ {p} : pc'[q] = pc[q]
             /\ (pc[p] # "idle" /\ pc'[p] # "idle" /\ pc'[p] # pc[p])
                => last' = last
         /\ last' # last
            => \/ started' = started + 1 /\ pc' = pc
               \/ \E p \in Proc : pc[p] # "idle" /\ pc'[p] = "idle"
         /\ (last' # last /\ last'.err = "store_failure")
            => /\ last'.resp = Error(500, "Server error")
               /\ UNCHANGED store
               /\ \A p \in Proc : pc'[p] = "idle" \/ pc'[p] = pc[p]
     ]_vars

\* Two requests were in progress together; the one that failed at the store
\* has been answered 500 and the other is still waiting for its store call.
C17_Witness ==
  /\ last.err = "store_failure" /\ last.resp = Error(500, "Server error")
  /\ last.at \in {"u_update", "u_hist"}
  /\ \E p \in Proc : pc[p] \in {"c_hist", "g_hist", "t_hist"}

\* C18: owner and actor come from the credential.  A step that adds a
\* shipment gives it as company_id the user id of the token of the create
\* request that inserts it, and a step that adds a StatusEvent gives it as
\* updated_by the user id of the token of the create or update request that
\* inserts it, whatever the request body names.
C18_OwnerAndActorFromCredential ==
  [][ /\ Len(shipments') > Len(shipments)
         => \E p \in Proc :
              /\ pc[p] = "c_insert" /\ req[p].kind = "create"
              /\ Len(shipments') = Len(shipments) + 1
              /\ shipments'[Len(shipments')].company_id
                   = Decode(req[p].token).userId
      /\ Len(status_history') > Len(status_history)
         => \E p \in Proc :
              /\ pc[p] \in {"c_hist", "u_hist"} /\ pc'[p] = "idle"
              /\ Len(status_history') = Len(status_history) + 1
              /\ status_history'[Len(status_history')].shipment_id
                   = (IF pc[p] = "c_hist" THEN loc[p].row.id ELSE req[p].id)
              /\ status_history'[Len(status_history')].updated_by
                   = Decode(req[p].token).userId
    ]_vars

\* A shipment created by the company principal has been updated by the
\* driver principal: its owner is the company, the actor of its first event
\* is the company and the actor of its second event is the driver, while
\* both request bodies named user 99.
C18_Witness ==
  /\ last.kind = "update" /\ last.resp.code = 200
  /\ Decode(last.token).type = "driver"
  /\ \E i \in 1..Len(shipments) :
       LET h == SelectHistory(shipments[i].id) IN
       /\ \E u \in Users : u.type = "company" /\ shipments[i].company_id = u.userId
       /\ Len(h) = 2
       /\ h[1].updated_by = shipments[i].company_id
       /\ h[2].updated_by = Decode(last.token).userId
       /\ \A d \in Drafts : d.company_id # shipments[i].company_id
       /\ \A b \in UpdateBodies : b.updated_by # h[2].updated_by

\* C19: in every reachable state driver_id is null in every shipment, the
\* query of listShipments selects no row for a principal of type driver, and
\* a list answered to a driver is empty.
C19_DriverSeesNothing ==
  /\ \A i \in 1..Len(shipments) : shipments[i].driver_id = NoId
  /\ \A u \in Users : u.type = "driver" => SelectShipmentsFor(u) = << >>
  /\ ( /\ last.kind = "list" /\ last.resp.code = 200
       /\ Decode(last.token).type = "driver" )
     => last.resp.shipments = << >>

\* A driver principal has just been answered an empty list while the store
\* holds a shipment, one that this driver created.
C19_Witness ==
  /\ last.kind = "list" /\ last.resp.code = 200
  /\ Decode(last.token).type = "driver"
  /\ last.resp.shipments = << >>
  /\ \E i \in 1..Len(shipments) :
       shipments[i].company_id = Decode(last.token).userId

====
